---- MODULE Spec2Model ----
(***************************************************************************)
(* Task Tracker (nikkithayer-primer/task-app): the swipe-to-delete gesture *)
(* recognizer (swipe.js), the row action dispatcher (Swipe.performDelete,  *)
(* UI.deleteEntry), the Firestore-backed storage with its localStorage     *)
(* fallback (storage.js) and the list display (UI.displayFinances,         *)
(* UI.displayMedia), as one state machine.                                 *)
(*                                                                         *)
(* The browser is single threaded: every handler, timer callback and       *)
(* promise continuation runs to its next await without interleaving, so    *)
(* each is one action.  A remote (Firestore) call is an await whose        *)
(* outcome, success or rejection, the environment chooses.                 *)
(***************************************************************************)
EXTENDS Integers, Sequences, FiniteSets, TLC

VARIABLES
    now,            \* Date.now(), milliseconds
    db,             \* Storage.db: "set" once Firestore initialised, else null:
                    \* "null" when Storage.init threw with the firebase global
                    \* loaded, "nosdk" when it threw because the global is missing
    remote,         \* Firestore: kind -> set of documents
    localStore,     \* localStorage: kind -> JSON array of entries
    rows,           \* kind -> the <tr class="swipe-row"> children of the table body
    tableShown,     \* kind -> table.style.display = 'table'
    swipeListeners, \* kind -> the handler sets bound to the body, each by its type
    mouseDown,      \* the primary mouse button is held
    touch,          \* the active touch point and the element it started on
    tasks,          \* the delete dispatches: setTimeout callback, UI.deleteEntry
    loads,          \* the Finance/Media.loadEntries calls awaiting Firestore
    snapDue,        \* kind -> the onSnapshot listener has a snapshot to deliver
    loading,        \* the loading spinner is visible
    ops,            \* the Storage.add* / update* calls of the forms and the cells
    missing,        \* the elements getElementById does not find in the document
    last            \* the classification the latest step made, if it was a pointer-up

vars == <<now, db, remote, localStore, rows, tableShown, swipeListeners,
          mouseDown, touch, tasks, loads, snapDue, loading, ops, missing, last>>

-----------------------------------------------------------------------------
(* Program constants *)

SWIPE_THRESHOLD == 100
SWIPE_TIME_LIMIT == 1000
ANIMATION_DELAY == 300

(* Bounds of the model *)

MaxTime == 1200
MaxTasks == 2
MaxOps == 2
MaxMissing == 1

Kinds == {"finance", "media"}

\* An entry: its id, the instant of its timestamp field in milliseconds and the
\* form the field has ("Timestamp": a Firestore Timestamp; "iso": an ISO 8601
\* string; "object": the plain {seconds, nanoseconds} object a Timestamp comes
\* back as from JSON), the user's data (cost stands for description and cost)
\* and the worth-it flag.
Entry(id, timestamp, form, cost, worthIt) ==
    [id |-> id, timestamp |-> timestamp, form |-> form, cost |-> cost,
     worthIt |-> worthIt]

\* The documents the collections hold when the application starts: one
\* document, in either collection.
Seeds ==
    { [finance |-> { Entry("f1", 1, "Timestamp", 5, TRUE) },
       media   |-> {}],
      [finance |-> {},
       media   |-> { Entry("m1", 1, "Timestamp", 5, TRUE) }] }

\* The instants the clock is sampled at and the pointer coordinates the events
\* carry, for the behaviours of the dispatcher: a swipe to x = 90 deletes.
Instants == {0, 350, 700}
DownXs == {200}
DownYs == {100}
MoveXs == {90}
MoveYs == {100}

\* The same for the behaviours of the gesture recognizer: moves on both sides
\* of the 60 pixel mark, rightward and vertical moves, releases on both sides
\* of the time limit.
GestureInstants == {0, 150, SWIPE_TIME_LIMIT, MaxTime}
GestureXs == {90, 139, 140, 150, 260}
GestureYs == {100, 160, 300}

-----------------------------------------------------------------------------
(* Helpers *)

Abs(n) == IF n < 0 THEN -n ELSE n

Min(a, b) == IF a < b THEN a ELSE b

\* Firestore's orderBy('timestamp', 'desc'): the documents, newest first.
RECURSIVE OrderByDesc(_)
OrderByDesc(S) ==
    IF S = {} THEN <<>>
    ELSE LET top == CHOOSE e \in S : \A o \in S : e.timestamp >= o.timestamp
         IN  <<top>> \o OrderByDesc(S \ {top})

\* doc.data() with data.timestamp = data.timestamp.toDate().toISOString() when
\* the field has a toDate method
toISO(e) == IF e.form = "Timestamp" THEN [e EXCEPT !.form = "iso"] ELSE e

RECURSIVE ReadDocs(_)
ReadDocs(docs) ==
    IF docs = <<>> THEN <<>> ELSE <<toISO(Head(docs))>> \o ReadDocs(Tail(docs))

\* JSON.parse(JSON.stringify(entry)): a Timestamp comes back as a plain object
throughJSON(e) == IF e.form = "Timestamp" THEN [e EXCEPT !.form = "object"] ELSE e

\* new Date(entry.timestamp) is a valid date: of a string, not of an object
validDate(e) == e.form = "iso"

\* (a, b) => new Date(b.timestamp) - new Date(a.timestamp) is NaN, which sort
\* takes for 0
incomparable(a, b) == ~validDate(a) \/ ~validDate(b)

\* Array.prototype.sort((a, b) => new Date(b.timestamp) - new Date(a.timestamp)):
\* a stable sort, newest first (insertion into the sorted prefix after its equals).
RECURSIVE InsertSorted(_, _)
InsertSorted(e, s) ==
    IF s = <<>> THEN <<e>>
    ELSE IF incomparable(Head(s), e) \/ Head(s).timestamp >= e.timestamp
         THEN <<Head(s)>> \o InsertSorted(e, Tail(s))
         ELSE <<e>> \o s

RECURSIVE SortNewestFirst(_)
SortNewestFirst(s) ==
    IF s = <<>> THEN <<>>
    ELSE InsertSorted(s[Len(s)], SortNewestFirst(SubSeq(s, 1, Len(s) - 1)))

\* The comparator is consistent on the array: either every date is valid, or
\* the invalid ones, equal to everything, make all elements equal.
consistentOn(s) ==
    \/ \A i \in 1..Len(s) : validDate(s[i])
    \/ \A i, j \in 1..Len(s) :
           (validDate(s[i]) /\ validDate(s[j])) => s[i].timestamp = s[j].timestamp

\* What entries.sort(...) may leave: the stable sort under a consistent
\* comparator; under an inconsistent one the order is implementation-defined.
SortOutcomes(s) ==
    IF consistentOn(s) THEN {SortNewestFirst(s)}
    ELSE { [i \in 1..Len(s) |-> s[p[i]]] : p \in Permutations(1..Len(s)) }

RECURSIVE FilterOutId(_, _)
FilterOutId(s, id) ==
    IF s = <<>> THEN <<>>
    ELSE IF Head(s).id = id THEN FilterOutId(Tail(s), id)
         ELSE <<Head(s)>> \o FilterOutId(Tail(s), id)

-----------------------------------------------------------------------------
(* The row element: dataset.id, _swipeData, the classes, the inline style *)

NoData ==
    [has |-> FALSE, startX |-> 0, startY |-> 0, currentX |-> 0,
     startTime |-> 0, isMouseDown |-> FALSE]

NoTransform == [t |-> "none", px |-> 0]        \* style.transform = ''
TranslateX(n) == [t |-> "px", px |-> n]        \* translateX(-<n>px)
OffScreen == [t |-> "pct", px |-> 0]           \* translateX(-100%)

\* What has happened on the row since its latest pointer-down: whether a move
\* event reached the gesture (moved), whether the latest one was at least as
\* horizontal as vertical and leftward (left) and its x coordinate if so (x),
\* whether every move was nearer the vertical than the horizontal (vertical),
\* whether the row's transform was changed by a move (offset) and whether
\* preventDefault was called (prevented), whether a pointer-up has ended the
\* gesture (ended) and how many performDelete calls followed from the
\* pointer-down (dispatched), and whether some move was horizontally dominant
\* and leftward by more than 0.6 * SWIPE_THRESHOLD (past).  dispatches counts the performDelete calls made
\* for the row element.
NoHist ==
    [moved |-> FALSE, left |-> FALSE, x |-> 0, vertical |-> TRUE,
     offset |-> FALSE, prevented |-> FALSE, ended |-> FALSE, dispatched |-> 0,
     past |-> FALSE]

\* UI.createFinanceRow / UI.createMediaRow
createRow(entry) ==
    [id |-> entry.id, at |-> entry.timestamp, worth |-> entry.worthIt,
     swipeData |-> NoData, swiping |-> FALSE,
     swipeDelete |-> FALSE, transform |-> NoTransform, faded |-> FALSE,
     hist |-> NoHist, dispatches |-> 0]

RECURSIVE createRows(_)
createRows(entries) ==
    IF entries = <<>> THEN <<>>
    ELSE <<createRow(Head(entries))>> \o createRows(Tail(entries))

-----------------------------------------------------------------------------
(* Swipe.handleStart, handleMove, handleEnd on the row the event targets *)

\* A variant that keeps the state of a gesture already begun
startRowKeeps(row, x, y, isTouch, t) ==
    IF row.swipeData.has THEN row
    ELSE [row EXCEPT !.swipeData = [has |-> TRUE, startX |-> x, startY |-> y,
                                    currentX |-> x, startTime |-> t,
                                    isMouseDown |-> ~isTouch],
                     !.swiping = TRUE]

\* handleStart: row._swipeData = {...}; row.classList.add('swiping')
startRow(row, x, y, isTouch, t) ==
    [row EXCEPT !.swipeData = [has |-> TRUE, startX |-> x, startY |-> y,
                               currentX |-> x, startTime |-> t,
                               isMouseDown |-> ~isTouch],
                !.swiping = TRUE]

\* A variant that does not look for the gesture state
moveIgnoredButtonOnly(row, type, buttons) ==
    row.swipeData.isMouseDown /\ type = "mousemove" /\ buttons # 1

\* handleMove returns early: no gesture state, or a mouse move without the
\* primary button on a gesture begun with the mouse.
moveIgnored(row, type, buttons) ==
    \/ ~row.swipeData.has
    \/ row.swipeData.isMouseDown /\ type = "mousemove" /\ buttons # 1

\* A variant that takes a move for vertical only when it is twice as steep
isVerticalTwice(row, x, y) ==
    Abs(y - row.swipeData.startY) > 2 * Abs(x - row.swipeData.startX)

\* if (Math.abs(deltaY) > Math.abs(deltaX)) return;
isVertical(row, x, y) ==
    Abs(y - row.swipeData.startY) > Abs(x - row.swipeData.startX)

\* swipeDistance > Config.SWIPE_THRESHOLD * 0.6
pastDeleteMark(distance) == distance * 10 > SWIPE_THRESHOLD * 6

\* Whether handleMove calls e.preventDefault()
movePrevents(row, x, y, type, buttons) ==
    ~moveIgnored(row, type, buttons) /\ ~isVertical(row, x, y)

\* A variant that records currentX before the test for a vertical move
moveRowAnyDirection(row, x, y, type, buttons) ==
    IF moveIgnored(row, type, buttons) THEN row
    ELSE IF isVertical(row, x, y) THEN [row EXCEPT !.swipeData.currentX = x]
    ELSE LET deltaX == x - row.swipeData.startX
             swipeDistance == Min(Abs(deltaX), SWIPE_THRESHOLD)
             tracked == [row EXCEPT !.swipeData.currentX = x]
         IN  IF deltaX < 0
             THEN [tracked EXCEPT !.transform = TranslateX(swipeDistance),
                                  !.swipeDelete = pastDeleteMark(swipeDistance)]
             ELSE tracked

\* A variant that does not cap the offset at SWIPE_THRESHOLD
moveRowUncapped(row, x, y, type, buttons) ==
    IF moveIgnored(row, type, buttons) \/ isVertical(row, x, y) THEN row
    ELSE LET deltaX == x - row.swipeData.startX
             swipeDistance == Abs(deltaX)
             tracked == [row EXCEPT !.swipeData.currentX = x]
         IN  IF deltaX < 0
             THEN [tracked EXCEPT !.transform = TranslateX(swipeDistance),
                                  !.swipeDelete = pastDeleteMark(swipeDistance)]
             ELSE tracked

\* handleMove past its early returns: preventDefault, currentX, and for a
\* leftward move the capped offset and the 'swipe-delete' class
moveRow(row, x, y, type, buttons) ==
    IF moveIgnored(row, type, buttons) \/ isVertical(row, x, y) THEN row
    ELSE LET deltaX == x - row.swipeData.startX
             swipeDistance == Min(Abs(deltaX), SWIPE_THRESHOLD)
             tracked == [row EXCEPT !.swipeData.currentX = x]
         IN  IF deltaX < 0
             THEN [tracked EXCEPT !.transform = TranslateX(swipeDistance),
                                  !.swipeDelete = pastDeleteMark(swipeDistance)]
             ELSE tracked

\* A variant with the marks at half the threshold
shouldDeleteHalf(data, t) ==
    LET deltaX == data.currentX - data.startX
        swipeDistance == Abs(deltaX)
        swipeTime == t - data.startTime
    IN  /\ deltaX * 10 < -(SWIPE_THRESHOLD * 5)
        /\ swipeDistance * 10 > SWIPE_THRESHOLD * 5
        /\ swipeTime < SWIPE_TIME_LIMIT

\* A variant without the time limit
shouldDeleteUntimed(data, t) ==
    LET deltaX == data.currentX - data.startX
        swipeDistance == Abs(deltaX)
    IN  /\ deltaX * 10 < -(SWIPE_THRESHOLD * 6)
        /\ swipeDistance * 10 > SWIPE_THRESHOLD * 6

\* A variant with the marks at the full threshold
shouldDeleteFull(data, t) ==
    LET deltaX == data.currentX - data.startX
        swipeDistance == Abs(deltaX)
        swipeTime == t - data.startTime
    IN  /\ deltaX < -SWIPE_THRESHOLD
        /\ swipeDistance > SWIPE_THRESHOLD
        /\ swipeTime < SWIPE_TIME_LIMIT

\* const shouldDelete = deltaX < -THRESHOLD * 0.6 && swipeDistance > THRESHOLD * 0.6
\*                      && swipeTime < TIME_LIMIT
shouldDelete(data, t) ==
    LET deltaX == data.currentX - data.startX
        swipeDistance == Abs(deltaX)
        swipeTime == t - data.startTime
    IN  /\ deltaX * 10 < -(SWIPE_THRESHOLD * 6)
        /\ swipeDistance * 10 > SWIPE_THRESHOLD * 6
        /\ swipeTime < SWIPE_TIME_LIMIT

\* Swipe.performDelete, its synchronous part: the exit animation
animateOut(row) == [row EXCEPT !.transform = OffScreen, !.faded = TRUE]

\* A variant that leaves the 'swipe-delete' class on the row
resetRowKeepsMarker(row) == [row EXCEPT !.transform = NoTransform]

\* handleEnd, the non-delete branch: the row goes back to rest
resetRow(row) == [row EXCEPT !.transform = NoTransform, !.swipeDelete = FALSE]

\* A variant that does not delete row._swipeData
endRowKeepsState(row, t) ==
    IF ~row.swipeData.has THEN row
    ELSE LET unmarked == [row EXCEPT !.swiping = FALSE]
         IN  IF shouldDelete(row.swipeData, t)
             THEN animateOut(unmarked)
             ELSE resetRow(unmarked)

\* handleEnd on the row: the class removed, the delete or the reset, the state
\* deleted
endRow(row, t) ==
    IF ~row.swipeData.has THEN row
    ELSE LET unmarked == [row EXCEPT !.swiping = FALSE]
             settled == IF shouldDelete(row.swipeData, t)
                        THEN animateOut(unmarked)
                        ELSE resetRow(unmarked)
         IN  [settled EXCEPT !.swipeData = NoData]

\* handleEnd calls performDelete
endDeletes(row, t) == row.swipeData.has /\ shouldDelete(row.swipeData, t)


-----------------------------------------------------------------------------
(* Storage (storage.js) and the list display (ui.js) *)

\* A deleteFromLocalStorage that drops the oldest-saved entry, whatever its id
deleteFromLocalStorageHead(store, kind, id) ==
    [store EXCEPT ![kind] = IF @ = <<>> THEN @ ELSE Tail(@)]

\* Storage.deleteFromLocalStorage(type, id)
deleteFromLocalStorage(store, kind, id) ==
    [store EXCEPT ![kind] = FilterOutId(@, id)]

\* doc(id).delete() on the collection
deleteDoc(coll, id) == {d \in coll : d.id # id}

\* UI.deleteEntry: 'finance' goes to Storage.deleteFinance and
\* Finance.loadEntries, anything else to Storage.deleteMedia and Media.loadEntries
collectionOf(type) == IF type = "finance" THEN "finance" ELSE "media"

\* Swipe.removeSwipeFromTable: the listeners recorded on the body are removed
removeSwipeFromTable(listeners) == <<>>

\* A variant that binds without removing the handlers bound before
addSwipeToTableAgain(listeners, type) == Append(listeners, type)

\* Swipe.addSwipeToTable: the earlier handlers removed, one new set bound
addSwipeToTable(listeners, type) ==
    Append(removeSwipeFromTable(listeners), type)

\* UI.displayFinances / UI.displayMedia: an empty list hides the table and
\* returns; otherwise the body is rebuilt and the swipe handlers are bound again.
rowsAfterDisplay(old, entries) ==
    IF entries = <<>> THEN old ELSE createRows(entries)

\* tableBody.innerHTML = '': the cells a pending toggle holds leave the document
detachCells(calls, kind) ==
    [c \in 1..Len(calls) |->
        IF calls[c].kind = kind THEN [calls[c] EXCEPT !.attached = FALSE]
        ELSE calls[c]]

\* The elements UI.displayFinances / displayMedia look up: '<kind>-table',
\* '<kind>-table-body', '<kind>-empty-state'
Anchor(kind, part) == <<kind, part>>
Anchors == {Anchor(k, part) : k \in Kinds, part \in {"table", "body", "empty"}}

\* table.style, emptyState.style and tableBody.innerHTML are read without a
\* null test: a TypeError when the element is null.  The body is only used
\* when the list is not empty.
displayThrows(held, kind, entries) ==
    \/ Anchor(kind, "table") \in held
    \/ Anchor(kind, "empty") \in held
    \/ entries # <<>> /\ Anchor(kind, "body") \in held

\* table.style.display is assigned before emptyState and tableBody are used
tableShownAfter(held, shown, kind, entries) ==
    IF Anchor(kind, "table") \in held THEN shown
    ELSE [shown EXCEPT ![kind] = (entries # <<>>)]

Display(kind, entries) ==
    LET threw == displayThrows(missing, kind, entries)
        redrawn == entries # <<>> /\ ~threw
    IN  /\ ops' = IF redrawn THEN detachCells(ops, kind) ELSE ops
        /\ tableShown' = tableShownAfter(missing, tableShown, kind, entries)
        /\ rows' = IF threw THEN rows
                   ELSE [rows EXCEPT ![kind] = rowsAfterDisplay(@, entries)]
        \* a touch goes on targeting the element it began on, which the rebuilt
        \* body no longer holds
        /\ touch' = IF redrawn /\ touch.kind = kind
                    THEN [touch EXCEPT !.attached = FALSE] ELSE touch
        /\ swipeListeners' =
               [swipeListeners EXCEPT ![kind] =
                   IF redrawn THEN addSwipeToTable(@, kind) ELSE @]
        /\ UNCHANGED missing

HasId(rs, id) == \E i \in 1..Len(rs) : rs[i].id = id

-----------------------------------------------------------------------------
(* The classification a pointer-up has just made *)

\* Set by the step in which Swipe.handleEnd runs on a row that has gesture
\* state: the row, its _swipeData when the handler began, and whether
\* performDelete was called.  Every other step clears it, or records one of
\* the events below.
NoEvent ==
    [ev |-> "none", kind |-> "finance", idx |-> 0, pre |-> NoData,
     deleted |-> FALSE, prevented |-> FALSE]

Classified(kind, idx, pre, deleted) ==
    [ev |-> "end", kind |-> kind, idx |-> idx, pre |-> pre, deleted |-> deleted,
     prevented |-> FALSE]

\* Swipe.handleStart has just run on a row; pre is the _swipeData it found
Started(kind, idx, pre) ==
    [ev |-> "start", kind |-> kind, idx |-> idx, pre |-> pre, deleted |-> FALSE,
     prevented |-> FALSE]

\* Swipe.handleEnd has just run on a row that had no _swipeData
EndNoState(kind, idx) ==
    [ev |-> "endNoState", kind |-> kind, idx |-> idx, pre |-> NoData,
     deleted |-> FALSE, prevented |-> FALSE]

\* A handler has just run on a target outside every row, or Swipe.handleMove
\* on a row that had no _swipeData; whether it called preventDefault
Ignored(prevented) ==
    [ev |-> "ignored", kind |-> "finance", idx |-> 0, pre |-> NoData,
     deleted |-> FALSE, prevented |-> prevented]

\* UI.displayFinances / displayMedia has just thrown a TypeError on a missing
\* element; caught says whether a try/catch around the call reported it
RenderThrew(kind, caught) ==
    [ev |-> "renderThrew", kind |-> kind, idx |-> 0, pre |-> NoData,
     deleted |-> FALSE, prevented |-> caught]

\* What a step that called the display of kind with entries records
renderReport(kind, entries, caught) ==
    IF displayThrows(missing, kind, entries) THEN RenderThrew(kind, caught)
    ELSE NoEvent

NoTouch == [active |-> FALSE, kind |-> "finance", idx |-> 0, attached |-> FALSE]

\* idx 0 is a target inside the table body but in no .swipe-row
Targets(kind) == 0..Len(rows[kind])

Bound(kind) == swipeListeners[kind] # <<>>

\* The type the body's handlers pass to handleEnd
BoundType(kind) == Head(swipeListeners[kind])

-----------------------------------------------------------------------------
InitWith(seed) ==
    /\ now = 0
    /\ db \in {"set", "null"}
    /\ remote = seed
    \* localStorage holds the cache an earlier session left
    /\ localStore = [k \in Kinds |-> ReadDocs(OrderByDesc(seed[k]))]
    \* Media.init calls loadEntries; Finance.init leaves it to the listener
    /\ LET first == IF db = "null" THEN SortNewestFirst(localStore["media"])
                    ELSE <<>>
       IN  /\ rows = [finance |-> <<>>, media |-> createRows(first)]
           /\ tableShown = [finance |-> FALSE, media |-> first # <<>>]
           /\ swipeListeners =
                  [finance |-> <<>>,
                   media |-> IF first = <<>> THEN <<>> ELSE <<"media">>]
    /\ loads = IF db = "set" THEN <<[kind |-> "media", task |-> 0]>> ELSE <<>>
    /\ snapDue = [k \in Kinds |-> db = "set"]
    /\ mouseDown = FALSE
    /\ touch = NoTouch
    /\ tasks = <<>>
    /\ ops = <<>>
    /\ missing = {}
    /\ loading = FALSE
    /\ last = NoEvent

Init == \E seed \in Seeds : InitWith(seed)

\* The application once its first snapshots are displayed and the initial
\* Media.loadEntries has finished, with nothing else begun.
InitGesture ==
    /\ now = 0
    /\ db = "set"
    /\ \E seed \in Seeds :
          /\ remote = seed
          /\ localStore = [k \in Kinds |-> ReadDocs(OrderByDesc(seed[k]))]
          /\ rows = [k \in Kinds |-> createRows(ReadDocs(OrderByDesc(seed[k])))]
          /\ tableShown = [k \in Kinds |-> seed[k] # {}]
          /\ swipeListeners = [k \in Kinds |-> IF seed[k] # {} THEN <<k>> ELSE <<>>]
    /\ loads = <<>>
    /\ snapDue = [k \in Kinds |-> FALSE]
    /\ mouseDown = FALSE
    /\ touch = NoTouch
    /\ tasks = <<>>
    /\ ops = <<>>
    /\ missing = {}
    /\ loading = FALSE
    /\ last = NoEvent


-----------------------------------------------------------------------------
(* The three handlers, bound by Swipe.addSwipeToTable to the table body *)

\* Swipe.handleStart(e)
HandleStart(kind, idx, x, y, isTouch) ==
    /\ rows' = IF idx = 0 THEN rows
               ELSE [rows EXCEPT ![kind][idx] =
                        [startRow(@, x, y, isTouch, now) EXCEPT !.hist = NoHist]]
    /\ last' = IF idx = 0 THEN Ignored(FALSE)
               ELSE Started(kind, idx, rows[kind][idx].swipeData)
    /\ UNCHANGED tasks

\* Swipe.handleMove(e)
HandleMove(kind, idx, x, y, type, buttons) ==
    LET row == rows[kind][idx]
        moved == moveRow(row, x, y, type, buttons)
        prevents == idx # 0 /\ movePrevents(row, x, y, type, buttons)
        steep == Abs(y - row.swipeData.startY) > Abs(x - row.swipeData.startX)
        leftward == ~steep /\ x < row.swipeData.startX
    IN  /\ rows' = IF idx = 0 \/ moveIgnored(row, type, buttons) THEN rows
                   ELSE [rows EXCEPT ![kind][idx] =
                            [moved EXCEPT !.hist =
                                [moved |-> TRUE, left |-> leftward,
                                 x |-> IF leftward THEN x ELSE 0,
                                 vertical |-> @.vertical /\ steep,
                                 offset |-> @.offset \/ moved.transform # row.transform,
                                 prevented |-> @.prevented \/ prevents,
                                 ended |-> @.ended,
                                 dispatched |-> @.dispatched,
                                 past |-> @.past \/
                                     (leftward /\ pastDeleteMark(row.swipeData.startX - x))]]]
        /\ last' = IF idx = 0 THEN Ignored(FALSE)
                   ELSE IF ~row.swipeData.has THEN Ignored(prevents)
                   ELSE NoEvent
        /\ UNCHANGED tasks

\* A variant that schedules the callback without the delay
deleteTaskAtOnce(kind, idx, type) ==
    [type |-> type, rowKind |-> kind, rowId |-> rows[kind][idx].id,
     animatedAt |-> now, due |-> now, pc |-> "timer",
     call |-> "none", callId |-> "none", outcome |-> "none",
     msg |-> "none", reload |-> "none", reloadKind |-> "none",
     present |-> FALSE]

\* Swipe.performDelete(row, type): setTimeout(() => UI.deleteEntry(row, type), 300)
deleteTask(kind, idx, type) ==
    [type |-> type, rowKind |-> kind, rowId |-> rows[kind][idx].id,
     animatedAt |-> now, due |-> now + ANIMATION_DELAY, pc |-> "timer",
     call |-> "none", callId |-> "none", outcome |-> "none",
     msg |-> "none", reload |-> "none", reloadKind |-> "none",
     present |-> FALSE]

\* Swipe.handleEnd(e, type)
HandleEnd(kind, idx, type) ==
    LET row == rows[kind][idx]
        deletes == idx # 0 /\ endDeletes(row, now)
    IN  /\ deletes => Len(tasks) < MaxTasks
        /\ rows' = IF idx = 0 THEN rows
                   ELSE [rows EXCEPT ![kind][idx] =
                            [endRow(row, now) EXCEPT
                                !.hist.offset = @ \/ deletes,
                                !.hist.ended = @ \/ row.swipeData.has,
                                !.hist.dispatched = IF deletes THEN @ + 1 ELSE @,
                                !.dispatches = IF deletes THEN @ + 1 ELSE @]]
        /\ tasks' = IF deletes THEN Append(tasks, deleteTask(kind, idx, type))
                    ELSE tasks
        /\ last' = IF idx = 0 THEN Ignored(FALSE)
                   ELSE IF row.swipeData.has
                        THEN Classified(kind, idx, row.swipeData, deletes)
                        ELSE EndNoState(kind, idx)

-----------------------------------------------------------------------------
(* Pointer events on a displayed table *)

Attached == touch.active /\ touch.attached

storeVars == <<db, remote, localStore, loads, snapDue, loading, ops>>
domVars == <<tableShown, swipeListeners, missing>>

TouchStart(Xs, Ys) ==
    \E kind \in Kinds : \E idx \in Targets(kind), x \in Xs, y \in Ys :
        /\ tableShown[kind] /\ Bound(kind) /\ ~touch.active
        /\ HandleStart(kind, idx, x, y, TRUE)
        /\ touch' = [active |-> TRUE, kind |-> kind, idx |-> idx, attached |-> TRUE]
        /\ UNCHANGED <<now, mouseDown, storeVars, domVars>>

\* touchmove and touchend go to the element the touch began on
TouchMove(Xs, Ys) ==
    \E x \in Xs, y \in Ys :
        /\ Attached /\ Bound(touch.kind)
        /\ HandleMove(touch.kind, touch.idx, x, y, "touchmove", 0)
        /\ UNCHANGED <<now, mouseDown, touch, storeVars, domVars>>

TouchEnd ==
    /\ Attached /\ Bound(touch.kind)
    /\ HandleEnd(touch.kind, touch.idx, BoundType(touch.kind))
    /\ touch' = NoTouch
    /\ UNCHANGED <<now, mouseDown, storeVars, domVars>>

\* touchcancel, for which no handler is bound, or the touch ending on a row
\* element a render has removed from the document
TouchCancel ==
    /\ touch.active
    /\ touch' = NoTouch
    /\ last' = NoEvent
    /\ UNCHANGED <<now, mouseDown, rows, tasks, storeVars, domVars>>

MouseDown(Xs, Ys) ==
    \E kind \in Kinds : \E idx \in Targets(kind), x \in Xs, y \in Ys :
        /\ tableShown[kind] /\ Bound(kind) /\ ~mouseDown
        /\ HandleStart(kind, idx, x, y, FALSE)
        /\ mouseDown' = TRUE
        /\ UNCHANGED <<now, touch, storeVars, domVars>>

MouseMove(Xs, Ys) ==
    \E kind \in Kinds : \E idx \in Targets(kind), x \in Xs, y \in Ys :
        /\ tableShown[kind] /\ Bound(kind)
        /\ HandleMove(kind, idx, x, y, "mousemove", IF mouseDown THEN 1 ELSE 0)
        /\ UNCHANGED <<now, mouseDown, touch, storeVars, domVars>>

MouseUp ==
    \E kind \in Kinds : \E idx \in Targets(kind) :
        /\ tableShown[kind] /\ Bound(kind) /\ mouseDown
        /\ HandleEnd(kind, idx, BoundType(kind))
        /\ mouseDown' = FALSE
        /\ UNCHANGED <<now, touch, storeVars, domVars>>

\* mouseleave does not bubble: the body's listener sees it with the body itself
\* as target, which lies in no .swipe-row
MouseLeave ==
    \E kind \in Kinds :
        /\ tableShown[kind] /\ Bound(kind)
        /\ HandleEnd(kind, 0, BoundType(kind))
        /\ UNCHANGED <<now, mouseDown, touch, storeVars, domVars>>

\* The button pressed or released outside the table bodies: no handler runs
MousePressElsewhere ==
    /\ ~mouseDown
    /\ mouseDown' = TRUE
    /\ last' = NoEvent
    /\ UNCHANGED <<now, touch, rows, tasks, storeVars, domVars>>

MouseReleaseElsewhere ==
    /\ mouseDown
    /\ mouseDown' = FALSE
    /\ last' = NoEvent
    /\ UNCHANGED <<now, touch, rows, tasks, storeVars, domVars>>

Tick(Ts) ==
    /\ \E t \in Ts : t > now /\ now' = t
    /\ last' = NoEvent
    /\ UNCHANGED <<mouseDown, touch, rows, tasks, storeVars, domVars>>


-----------------------------------------------------------------------------
(* The row action dispatcher: the timer callback, UI.deleteEntry,          *)
(* Storage.deleteFinance / deleteMedia, Finance / Media.loadEntries        *)


\* Storage.deleteFinance for 'finance', Storage.deleteMedia otherwise
deleteCall(type) == IF type = "finance" THEN "deleteFinance" ELSE "deleteMedia"

\* The collection a Storage delete function works on
callCollection(call) == IF call = "deleteFinance" THEN "finance" ELSE "media"

\* The setTimeout callback runs UI.deleteEntry(row, type) up to its first
\* suspension.  Without Firestore, Storage.delete* throws inside its try, deletes
\* from localStorage and returns true; loadEntries then reads localStorage, and
\* the whole chain finishes before any other event is handled.
TimerFires(i) ==
    LET task == tasks[i]
        call == deleteCall(task.type)
        coll == callCollection(call)
        id == task.rowId
    IN  /\ task.pc = "timer"
        /\ now >= task.due
        /\ IF db = "set"
           THEN /\ tasks' = [tasks EXCEPT ![i] =
                       [@ EXCEPT !.pc = "deleting",
                                 !.call = call, !.callId = id]]
                /\ loading' = TRUE
                /\ last' = NoEvent
                /\ UNCHANGED <<localStore, rows, domVars, touch, ops>>
           ELSE LET store == deleteFromLocalStorage(localStore, coll, id)
                    shown == collectionOf(task.type)
                IN  \E entries \in SortOutcomes(store[shown]) :
                    /\ localStore' = store
                    /\ Display(shown, entries)
                    /\ tasks' = [tasks EXCEPT ![i] =
                           [@ EXCEPT !.pc = "done", !.animatedAt = 0, !.due = 0,
                                     !.call = call, !.callId = id,
                                     !.outcome = "unavailable",
                                     !.msg = "success",
                                     !.reload = IF displayThrows(missing, shown, entries)
                                                THEN "failed" ELSE "shown",
                                     !.reloadKind = shown,
                                     !.present = HasId(entries, id)]]
                    /\ loading' = FALSE
                    /\ last' = renderReport(shown, entries, TRUE)
        /\ UNCHANGED <<now, db, remote, loads, snapDue, mouseDown>>

\* The Firestore delete settles.  Storage.delete* deletes from localStorage on
\* either outcome and returns true; UI.deleteEntry then calls loadEntries (not
\* awaited), reports success and hides the spinner.
RemoteDeleteSettles(i, ok) ==
    LET task == tasks[i]
        coll == callCollection(task.call)
        after == IF ok THEN deleteDoc(remote[coll], task.callId) ELSE remote[coll]
    IN  /\ task.pc = "deleting"
        /\ remote' = [remote EXCEPT ![coll] = after]
        /\ snapDue' = [snapDue EXCEPT ![coll] = @ \/ after # remote[coll]]
        /\ localStore' = deleteFromLocalStorage(localStore, coll, task.callId)
        /\ loads' = Append(loads, [kind |-> collectionOf(task.type), task |-> i])
        /\ tasks' = [tasks EXCEPT ![i] =
               [@ EXCEPT !.pc = "done", !.animatedAt = 0, !.due = 0,
                         !.outcome = IF ok THEN "ok" ELSE "failed",
                         !.msg = "success", !.reload = "pending",
                         !.reloadKind = collectionOf(task.type)]]
        /\ loading' = FALSE
        /\ last' = NoEvent
        /\ UNCHANGED <<now, db, rows, domVars, mouseDown, touch, ops>>

RECURSIVE DropAt(_, _)
DropAt(s, j) ==
    IF j = 1 THEN Tail(s) ELSE <<Head(s)>> \o DropAt(Tail(s), j - 1)

\* Storage.getFinances / getMedia settles inside loadEntries: on success the
\* documents replace the localStorage cache, on rejection (or without
\* Firestore) the cache is read;
\* the entries are sorted newest first and displayed.
GetSettles(j, ok) ==
    LET load == loads[j]
        entries == IF ok THEN ReadDocs(OrderByDesc(remote[load.kind]))
                   ELSE localStore[load.kind]
    IN  \E sorted \in SortOutcomes(entries) :
        /\ ok => db = "set"
        /\ localStore' = IF ok THEN [localStore EXCEPT ![load.kind] = entries]
                         ELSE localStore
        /\ Display(load.kind, sorted)
        /\ tasks' = IF load.task = 0 THEN tasks
                    ELSE [tasks EXCEPT ![load.task] =
                             [@ EXCEPT !.reload = IF displayThrows(missing, load.kind, sorted)
                                                  THEN "failed" ELSE "shown",
                                       !.present = HasId(sorted, tasks[load.task].callId)]]
        /\ loads' = DropAt(loads, j)
        \* loadEntries catches what the display throws and shows an error
        /\ last' = renderReport(load.kind, sorted, TRUE)
        /\ UNCHANGED <<now, db, remote, snapDue, loading, mouseDown>>

\* The onSnapshot callback of Storage.setupRealtimeListeners, with the
\* callbacks App.setupRealtimeSync passes
Snapshot(kind) ==
    LET entries == ReadDocs(OrderByDesc(remote[kind]))
    IN  /\ db = "set"
        /\ snapDue[kind]
        /\ localStore' = [localStore EXCEPT ![kind] = entries]
        /\ Display(kind, entries)
        /\ snapDue' = [snapDue EXCEPT ![kind] = FALSE]
        \* nothing around the listener's callback catches
        /\ last' = renderReport(kind, entries, FALSE)
        /\ UNCHANGED <<now, db, remote, loads, tasks, loading, mouseDown>>

-----------------------------------------------------------------------------
(* The forms and the worth-it cells: Finance / Media.handleSubmit,          *)
(* Storage.addFinance / addMedia, UI.toggleWorthItInTable,                  *)
(* Storage.updateFinance / updateMedia                                      *)

\* Storage.generateId(): Date.now() and Math.random() in base 36, taken to be
\* new each time
NewIds == <<"n1", "n2", "n3", "n4">>

\* What the form submits and the instants the storage steps are followed at
AddCosts == {7}
StoreInstants == {700}

\* The documents the collections hold in the storage behaviours
StoreSeed ==
    [finance |-> { Entry("f1", 1, "Timestamp", 5, TRUE),
                   Entry("f2", 2, "Timestamp", 5, TRUE) },
     media   |-> {}]

\* The Storage and display calls begun so far
begun == Len(ops) + Len(tasks)

\* entryWithTimestamp: the id, timestamp: firebase.firestore.Timestamp.now(),
\* createdAt (the same instant as an ISO string)
entryWithTimestamp(id, t, cost, worthIt) == Entry(id, t, "Timestamp", cost, worthIt)

\* localEntry = {...entryWithTimestamp, timestamp: entryWithTimestamp.createdAt}
localEntry(entry) == [entry EXCEPT !.form = "iso"]

\* Storage.saveToLocalStorage(type, entry): existing.push(entry); setItem
saveToLocalStorage(store, kind, entry) ==
    [store EXCEPT ![kind] = Append(@, throughJSON(entry))]

\* existing.findIndex(entry => entry.id === id)
RECURSIVE findIndex(_, _)
findIndex(s, id) ==
    IF s = <<>> THEN 0
    ELSE IF Head(s).id = id THEN 1
         ELSE LET rest == findIndex(Tail(s), id)
              IN  IF rest = 0 THEN 0 ELSE rest + 1

\* An updateInLocalStorage that merges the updates into every entry of the list
updateInLocalStorageAll(store, kind, id, worthIt) ==
    [store EXCEPT ![kind] = [i \in DOMAIN @ |-> [@[i] EXCEPT !.worthIt = worthIt]]]

\* Storage.updateInLocalStorage(type, id, updates), when the entry is found:
\* existing[entryIndex] = {...existing[entryIndex], ...updates}; setItem
updateInLocalStorage(store, kind, id, worthIt) ==
    [store EXCEPT ![kind][findIndex(store[kind], id)].worthIt = worthIt]

\* doc(id).set(entry): the document of that id is written
setDoc(coll, entry) == {d \in coll : d.id # entry.id} \cup {entry}

\* doc(id).update({worthIt}): the field is merged into the document
updateDoc(coll, id, worthIt) ==
    {IF d.id = id THEN [d EXCEPT !.worthIt = worthIt] ELSE d : d \in coll}

NoEntry == Entry("none", 0, "iso", 0, FALSE)

addsSoFar == Cardinality({c \in 1..Len(ops) : ops[c].op = "add"})

\* Finance.handleSubmit / Media.handleSubmit with a valid form, up to the await
\* inside Storage.addFinance / addMedia.  Without Firestore the call throws
\* inside its try, saves localEntry to localStorage and returns it.  Without
\* the firebase global, firebase.firestore.Timestamp.now() throws before the
\* try is entered: the call rejects and handleSubmit reports the failure.
AddEntry(kind) ==
    \E cost \in AddCosts, worthIt \in {FALSE} :
        LET id == NewIds[addsSoFar + 1]
            entry == entryWithTimestamp(id, now, cost, worthIt)
            call == [op |-> "add", kind |-> kind, id |-> id, entry |-> entry,
                     worthIt |-> worthIt, cell |-> 0, attached |-> FALSE,
                     pc |-> "remote", outcome |-> "none", rejected |-> FALSE,
                     result |-> NoEntry]
        IN  /\ begun < MaxOps
            /\ IF db = "set"
               THEN /\ ops' = Append(ops, call)
                    /\ loading' = TRUE
                    /\ UNCHANGED <<localStore, loads>>
               ELSE IF db = "null"
               THEN /\ localStore' = saveToLocalStorage(localStore, kind, localEntry(entry))
                    /\ ops' = Append(ops, [call EXCEPT !.pc = "done",
                                                      !.outcome = "unavailable",
                                                      !.result = localEntry(entry)])
                    /\ loads' = IF kind = "media"
                                THEN Append(loads, [kind |-> "media", task |-> 0])
                                ELSE loads
                    /\ loading' = FALSE
               ELSE /\ ops' = Append(ops, [call EXCEPT !.pc = "done",
                                                      !.outcome = "unavailable",
                                                      !.rejected = TRUE])
                    /\ loading' = FALSE
                    /\ UNCHANGED <<localStore, loads>>
            /\ last' = NoEvent
            /\ UNCHANGED <<now, db, remote, snapDue, rows, domVars, tasks,
                           mouseDown, touch>>

\* doc(id).set(entry) is applied to the collection: its listener has a new
\* snapshot to deliver and reads return the document, while the promise of
\* the write is not yet resolved
RemoteWrites(c) ==
    LET call == ops[c]
    IN  /\ call.op = "add" /\ call.pc = "remote"
        /\ remote' = [remote EXCEPT ![call.kind] = setDoc(@, call.entry)]
        /\ snapDue' = [snapDue EXCEPT ![call.kind] = TRUE]
        /\ ops' = [ops EXCEPT ![c].pc = "written"]
        /\ last' = NoEvent
        /\ UNCHANGED <<now, db, localStore, loads, loading, rows, domVars, tasks,
                       mouseDown, touch>>

\* The promise of doc(id).set(entry) settles: resolved once the write is
\* applied, and then the entry is also pushed to localStorage and returned;
\* on rejection localEntry is.  Media.handleSubmit then calls loadEntries;
\* Finance.handleSubmit leaves the display to the snapshot listener.
AddSettles(c, ok) ==
    LET call == ops[c]
        saved == IF ok THEN call.entry ELSE localEntry(call.entry)
    IN  /\ call.op = "add"
        /\ call.pc = IF ok THEN "written" ELSE "remote"
        /\ UNCHANGED <<remote, snapDue>>
        /\ localStore' = saveToLocalStorage(localStore, call.kind, saved)
        /\ ops' = [ops EXCEPT ![c] =
               [@ EXCEPT !.pc = "done",
                         !.outcome = IF ok THEN "ok" ELSE "failed",
                         !.result = saved]]
        /\ loads' = IF call.kind = "media"
                    THEN Append(loads, [kind |-> "media", task |-> 0])
                    ELSE loads
        /\ loading' = FALSE
        /\ last' = NoEvent
        /\ UNCHANGED <<now, db, rows, domVars, tasks, mouseDown, touch>>

\* The cell of a pending toggle shows the new value once the update returned
cellUpdated(rs, call) ==
    IF call.attached /\ call.cell \in 1..Len(rs)
    THEN [rs EXCEPT ![call.cell].worth = call.worthIt]
    ELSE rs

\* An updateLocally whose caller writes the cell before the update has
\* returned, so that the cell changes even when the update throws
updateLocallyEager(c, call, outcome) ==
    LET found == findIndex(localStore[call.kind], call.id) # 0
    IN  /\ localStore' = IF found
                         THEN updateInLocalStorage(localStore, call.kind, call.id,
                                                   call.worthIt)
                         ELSE localStore
        /\ rows' = [rows EXCEPT ![call.kind] = cellUpdated(@, call)]
        /\ LET done == [call EXCEPT
                            !.pc = "done", !.outcome = outcome,
                            !.rejected = ~found,
                            !.result = IF found
                                       THEN [localStore[call.kind][
                                                 findIndex(localStore[call.kind], call.id)]
                                             EXCEPT !.worthIt = call.worthIt]
                                       ELSE NoEntry]
           IN  ops' = IF c > Len(ops) THEN Append(ops, done)
                      ELSE [ops EXCEPT ![c] = done]
        /\ loading' = FALSE

\* Storage.updateFinance / updateMedia from its catch or after the remote
\* update: updateInLocalStorage, which throws when the entry is not in
\* localStorage; UI.toggleWorthItInTable then sets the cell, or reports the error.
updateLocally(c, call, outcome) ==
    LET found == findIndex(localStore[call.kind], call.id) # 0
    IN  /\ localStore' = IF found
                         THEN updateInLocalStorage(localStore, call.kind, call.id,
                                                   call.worthIt)
                         ELSE localStore
        /\ rows' = IF found
                   THEN [rows EXCEPT ![call.kind] = cellUpdated(@, call)]
                   ELSE rows
        /\ LET done == [call EXCEPT
                            !.pc = "done", !.outcome = outcome,
                            !.rejected = ~found,
                            !.result = IF found
                                       THEN [localStore[call.kind][
                                                 findIndex(localStore[call.kind], call.id)]
                                             EXCEPT !.worthIt = call.worthIt]
                                       ELSE NoEntry]
           IN  ops' = IF c > Len(ops) THEN Append(ops, done)
                      ELSE [ops EXCEPT ![c] = done]
        /\ loading' = FALSE

\* UI.toggleWorthItInTable(cell) on the worth-it cell of a displayed row, up to
\* the await inside Storage.updateFinance / updateMedia
ToggleWorthIt(kind, idx) ==
    LET row == rows[kind][idx]
        call == [op |-> "update", kind |-> kind, id |-> row.id, entry |-> NoEntry,
                 worthIt |-> ~row.worth, cell |-> idx, attached |-> TRUE,
                 pc |-> "remote", outcome |-> "none", rejected |-> FALSE,
                 result |-> NoEntry]
    IN  /\ tableShown[kind]
        /\ begun < MaxOps
        /\ IF db = "set"
           THEN /\ ops' = Append(ops, call)
                /\ loading' = TRUE
                /\ UNCHANGED <<localStore, rows>>
           ELSE updateLocally(Len(ops) + 1, call, "unavailable")
        /\ last' = NoEvent
        /\ UNCHANGED <<now, db, remote, snapDue, loads, domVars, tasks,
                       mouseDown, touch>>

\* doc(id).update({worthIt}) settles; it rejects when there is no such document
UpdateSettles(c, ok) ==
    LET call == ops[c]
        exists == \E d \in remote[call.kind] : d.id = call.id
    IN  /\ call.op = "update" /\ call.pc = "remote"
        /\ ok => exists
        /\ remote' = IF ok
                      THEN [remote EXCEPT ![call.kind] =
                               updateDoc(@, call.id, call.worthIt)]
                      ELSE remote
        /\ snapDue' = [snapDue EXCEPT ![call.kind] = @ \/ remote' # remote]
        /\ updateLocally(c, call, IF ok THEN "ok" ELSE "failed")
        /\ last' = NoEvent
        /\ UNCHANGED <<now, db, loads, domVars, tasks, mouseDown, touch>>

\* Swipe.performDelete(row, type), as Swipe.handleEnd calls it for a confirmed
\* swipe on a displayed row
PerformDelete(kind, idx) ==
    /\ tableShown[kind] /\ Bound(kind)
    /\ begun < MaxOps
    /\ rows' = [rows EXCEPT ![kind][idx] =
                   [animateOut(@) EXCEPT !.dispatches = @ + 1]]
    /\ tasks' = Append(tasks, deleteTask(kind, idx, BoundType(kind)))
    /\ last' = NoEvent
    /\ UNCHANGED <<now, mouseDown, touch, storeVars, domVars>>

-----------------------------------------------------------------------------
Dispatch ==
    \/ \E i \in 1..Len(tasks) : TimerFires(i)
    \/ \E i \in 1..Len(tasks), ok \in BOOLEAN : RemoteDeleteSettles(i, ok)
    \/ \E j \in 1..Len(loads), ok \in BOOLEAN : GetSettles(j, ok)
    \/ \E kind \in Kinds : Snapshot(kind)

Next ==
    \/ TouchStart(DownXs, DownYs)
    \/ TouchMove(MoveXs, MoveYs)
    \/ TouchEnd
    \/ TouchCancel
    \/ Tick(Instants)
    \/ Dispatch

Spec == Init /\ [][Next]_vars

NextGesture ==
    \/ TouchStart(DownXs, DownYs)
    \/ TouchMove(GestureXs, GestureYs)
    \/ TouchEnd
    \/ TouchCancel
    \/ MouseDown(DownXs, DownYs)
    \/ MouseMove(GestureXs, GestureYs)
    \/ MouseUp
    \/ MouseLeave
    \/ MousePressElsewhere
    \/ MouseReleaseElsewhere
    \/ Tick(GestureInstants)

SpecGesture == InitGesture /\ [][NextGesture]_vars

\* The application with two finance entries stored: once its first snapshots
\* are displayed and the initial Media.loadEntries has finished, or, without
\* Firestore, once Media.init has displayed the (empty) cached media list.
InitStore ==
    /\ now = 350
    /\ db \in {"set", "null", "nosdk"}
    /\ remote = StoreSeed
    /\ localStore = [k \in Kinds |-> ReadDocs(OrderByDesc(StoreSeed[k]))]
    /\ LET shown == [k \in Kinds |-> IF db = "set" THEN localStore[k] ELSE <<>>]
       IN  /\ rows = [k \in Kinds |-> createRows(shown[k])]
           /\ tableShown = [k \in Kinds |-> shown[k] # <<>>]
           /\ swipeListeners = [k \in Kinds |-> IF shown[k] # <<>> THEN <<k>> ELSE <<>>]
    /\ loads = <<>>
    /\ snapDue = [k \in Kinds |-> FALSE]
    /\ mouseDown = FALSE
    /\ touch = NoTouch
    /\ tasks = <<>>
    /\ ops = <<>>
    /\ missing = {}
    /\ loading = FALSE
    /\ last = NoEvent

\* The storage behaviours: entries added by the forms, toggled in their cells
\* and deleted from their rows, under every outcome of the Firestore calls.
NextStore ==
    \/ \E kind \in Kinds : AddEntry(kind)
    \/ \E c \in 1..Len(ops) : RemoteWrites(c)
    \/ \E c \in 1..Len(ops), ok \in BOOLEAN : AddSettles(c, ok)
    \/ \E kind \in Kinds : \E idx \in 1..Len(rows[kind]) : ToggleWorthIt(kind, idx)
    \/ \E c \in 1..Len(ops), ok \in BOOLEAN : UpdateSettles(c, ok)
    \/ \E kind \in Kinds : \E idx \in 1..Len(rows[kind]) : PerformDelete(kind, idx)
    \/ Tick(StoreInstants)
    \/ Dispatch

SpecStore == InitStore /\ [][NextStore]_vars

\* The same application in a document that lacks some of the elements the
\* displays look up: the first renders have run, and thrown where they do.
InitAnchors ==
    /\ now = 350
    /\ db \in {"set", "null"}
    /\ remote = StoreSeed
    /\ localStore = [k \in Kinds |-> ReadDocs(OrderByDesc(StoreSeed[k]))]
    /\ missing \in {m \in SUBSET Anchors : Cardinality(m) <= MaxMissing}
    /\ LET shown == [k \in Kinds |-> IF db = "set" THEN localStore[k] ELSE <<>>]
           threw == [k \in Kinds |-> displayThrows(missing, k, shown[k])]
           hidden == [k \in Kinds |-> FALSE]
       IN  /\ rows = [k \in Kinds |->
                         IF threw[k] THEN <<>> ELSE createRows(shown[k])]
           /\ tableShown = [k \in Kinds |->
                               tableShownAfter(missing, hidden, k, shown[k])[k]]
           /\ swipeListeners = [k \in Kinds |->
                                   IF shown[k] # <<>> /\ ~threw[k] THEN <<k>>
                                   ELSE <<>>]
    /\ loads = <<>>
    /\ snapDue = [k \in Kinds |-> FALSE]
    /\ mouseDown = FALSE
    /\ touch = NoTouch
    /\ tasks = <<>>
    /\ ops = <<>>
    /\ loading = FALSE
    /\ last = NoEvent

SpecAnchors == InitAnchors /\ [][NextStore]_vars

\* The same behaviours under the scheduling of the browser: a settled promise
\* runs its continuation, a due timer fires, a pending snapshot is delivered.
\* Nothing obliges the user to submit, toggle or swipe.
FairStore ==
    /\ WF_vars(Dispatch)
    /\ WF_vars(\E c \in 1..Len(ops), ok \in BOOLEAN : AddSettles(c, ok))
    /\ WF_vars(\E c \in 1..Len(ops), ok \in BOOLEAN : UpdateSettles(c, ok))

SpecSync == InitStore /\ [][NextStore]_vars /\ FairStore

-----------------------------------------------------------------------------
(* The migration: Storage.syncLocalToFirestore, called from the console     *)

\* The most entries localStorage holds beyond its copy of the collection
MaxLocal == 2

\* Entries only localStorage holds: one saved by the fallback of an add (its
\* timestamp an ISO string), one saved after a successful add (its timestamp
\* the plain object a Timestamp comes back as from JSON)
LocalOnly ==
    [finance |-> { localEntry(entryWithTimestamp("n1", 300, 7, TRUE)),
                   throughJSON(entryWithTimestamp("n2", 320, 7, TRUE)) },
     media   |-> { localEntry(entryWithTimestamp("n3", 310, 7, TRUE)) }]

SeqsUpTo(S, n) == UNION {[1..m -> S] : m \in 0..n}

\* {...entry, timestamp: Timestamp.fromDate(new Date(entry.timestamp ||
\* entry.createdAt))}: new Date of a plain object is an Invalid Date
firestoreEntry(entry) ==
    IF validDate(entry) THEN [entry EXCEPT !.form = "Timestamp"]
    ELSE [entry EXCEPT !.form = "invalid"]

\* The two for loops: past the last entry of the finances the loop over the
\* media begins, past the last of the media the results are returned
loopExit(call) ==
    IF call.pc = "finance" /\ call.at > Len(call.read.finance)
    THEN IF call.read.media = <<>> THEN [call EXCEPT !.pc = "returned"]
         ELSE [call EXCEPT !.pc = "media", !.at = 1]
    ELSE IF call.pc = "media" /\ call.at > Len(call.read.media)
         THEN [call EXCEPT !.pc = "returned"]
         ELSE call

\* Storage.syncLocalToFirestore() up to its first await: it throws when
\* isFirebaseAvailable() is false, else reads both lists from localStorage
SyncBegins ==
    LET call == [op |-> "sync", kind |-> "both", pc |-> "finance", at |-> 1,
                 read |-> localStore,
                 results |-> [k \in Kinds |-> [synced |-> 0, errors |-> 0]],
                 attempts |-> [k \in Kinds |-> <<>>]]
    IN  /\ ops = <<>>
        /\ ops' = IF db = "set" THEN <<loopExit(call)>>
                  ELSE <<[call EXCEPT !.pc = "thrown", !.read = [k \in Kinds |-> <<>>]]>>
        /\ last' = NoEvent
        /\ UNCHANGED <<now, db, remote, localStore, rows, domVars, loads, snapDue,
                       loading, tasks, mouseDown, touch>>

\* A failed write counts its error and ends the call
SyncWritesStopping(ok) ==
    LET call == ops[1]
        k == call.pc
        entry == call.read[k][call.at]
        tried == [call EXCEPT !.attempts[k] = Append(@, [at |-> call.at, ok |-> ok])]
    IN  /\ ops # <<>>
        /\ call.op = "sync" /\ call.pc \in Kinds
        /\ remote' = IF ok THEN [remote EXCEPT ![k] = setDoc(@, firestoreEntry(entry))]
                      ELSE remote
        /\ snapDue' = [snapDue EXCEPT ![k] = @ \/ ok]
        /\ ops' = <<IF ok
                    THEN loopExit([tried EXCEPT !.results[k].synced = @ + 1,
                                                !.at = @ + 1])
                    ELSE [tried EXCEPT !.results[k].errors = @ + 1,
                                       !.pc = "returned"]>>
        /\ last' = NoEvent
        /\ UNCHANGED <<now, db, localStore, rows, domVars, loads, loading, tasks,
                       mouseDown, touch>>

\* One turn of a loop: doc(entry.id).set(firestoreEntry) settles; synced++ when
\* it resolved, errors++ in the catch of the turn when it (or the conversion
\* of the timestamp) threw
SyncWrites(ok) ==
    LET call == ops[1]
        k == call.pc
        entry == call.read[k][call.at]
        tried == [call EXCEPT !.attempts[k] = Append(@, [at |-> call.at, ok |-> ok])]
    IN  /\ ops # <<>>
        /\ call.op = "sync" /\ call.pc \in Kinds
        /\ remote' = IF ok THEN [remote EXCEPT ![k] = setDoc(@, firestoreEntry(entry))]
                      ELSE remote
        /\ snapDue' = [snapDue EXCEPT ![k] = @ \/ ok]
        /\ ops' = <<loopExit(IF ok
                             THEN [tried EXCEPT !.results[k].synced = @ + 1,
                                                !.at = @ + 1]
                             ELSE [tried EXCEPT !.results[k].errors = @ + 1,
                                                !.at = @ + 1])>>
        /\ last' = NoEvent
        /\ UNCHANGED <<now, db, localStore, rows, domVars, loads, loading, tasks,
                       mouseDown, touch>>

\* The application once its collections are displayed, with entries in
\* localStorage that the collections may not hold
InitMigrate ==
    /\ now = 350
    /\ db \in {"set", "null", "nosdk"}
    /\ remote \in {StoreSeed, [k \in Kinds |-> {}]}
    /\ \E extra \in [Kinds -> SeqsUpTo(UNION {LocalOnly[k] : k \in Kinds}, MaxLocal)] :
           /\ \A k \in Kinds : \A i \in 1..Len(extra[k]) : extra[k][i] \in LocalOnly[k]
           /\ localStore = [k \in Kinds |->
                                ReadDocs(OrderByDesc(remote[k])) \o extra[k]]
    /\ LET shown == [k \in Kinds |->
                        IF db = "set" THEN ReadDocs(OrderByDesc(remote[k])) ELSE <<>>]
       IN  /\ rows = [k \in Kinds |-> createRows(shown[k])]
           /\ tableShown = [k \in Kinds |-> shown[k] # <<>>]
           /\ swipeListeners = [k \in Kinds |-> IF shown[k] # <<>> THEN <<k>> ELSE <<>>]
    /\ loads = <<>>
    /\ snapDue = [k \in Kinds |-> FALSE]
    /\ mouseDown = FALSE
    /\ touch = NoTouch
    /\ tasks = <<>>
    /\ ops = <<>>
    /\ missing = {}
    /\ loading = FALSE
    /\ last = NoEvent

\* The migration with the snapshots its writes cause delivered at any moment
NextMigrate ==
    \/ SyncBegins
    \/ \E ok \in BOOLEAN : SyncWrites(ok)
    \/ \E kind \in Kinds : Snapshot(kind)

SpecMigrate == InitMigrate /\ [][NextMigrate]_vars

-----------------------------------------------------------------------------
(* Properties *)

\* The row the latest pointer-up was classified on, and the gesture it ended
lastRow == rows[last.kind][last.idx]
EndDeltaX == last.pre.currentX - last.pre.startX
EndElapsed == now - last.pre.startTime

\* C1: a pointer-up on a row that has gesture state is classified as a delete
\* exactly when deltaX < -60, |deltaX| > 60 and less than 1000 ms have passed
\* since the pointer-down; a delete starts the row's exit animation.
C1_DeleteExactlyWhen ==
    last.ev = "end" =>
        /\ last.deleted <=> (/\ EndDeltaX < -60
                             /\ Abs(EndDeltaX) > 60
                             /\ EndElapsed < 1000)
        /\ last.deleted => lastRow.transform = OffScreen /\ lastRow.faded

\* down at x = 200 at time 0, move to x = 90, up at 150 ms: a delete
C1_Witness ==
    /\ last.ev = "end" /\ last.deleted
    /\ last.pre.startX = 200 /\ last.pre.currentX = 90
    /\ last.pre.startTime = 0 /\ now = 150

\* C2: when the storage delete of a dispatched row fails, an error is reported
\* to the user, and the list displayed afterwards shows the entry.
C2_FailureReported ==
    \A i \in 1..Len(tasks) :
        tasks[i].outcome = "failed" =>
            /\ tasks[i].msg = "error"
            /\ tasks[i].reload = "shown" => tasks[i].present

\* C3: a confirmed delete first animates the row out and schedules the storage
\* delete; the storage delete is invoked no earlier than 300 ms later, with the
\* row's id and on the collection of the row's table; the reload is requested
\* only once the delete has completed, and for the same collection.
C3_Step ==
    /\ Len(tasks') > Len(tasks) =>
           LET new == tasks'[Len(tasks')]
               row == rows'[last'.kind][last'.idx]
           IN  /\ last'.ev = "end" /\ last'.deleted
               /\ row.transform = OffScreen /\ row.faded
               /\ new.rowId = row.id /\ new.rowKind = last'.kind
               /\ new.call = "none" /\ new.reload = "none"
    /\ \A i \in 1..Len(tasks) :
           /\ (tasks[i].call = "none" /\ tasks'[i].call # "none") =>
                  /\ now >= tasks[i].animatedAt + 300
                  /\ tasks'[i].call = IF tasks[i].rowKind = "finance"
                                      THEN "deleteFinance" ELSE "deleteMedia"
                  /\ tasks'[i].callId = tasks[i].rowId
           /\ (tasks[i].reload = "none" /\ tasks'[i].reload # "none") =>
                  /\ tasks'[i].call # "none"
                  /\ tasks'[i].outcome # "none"
                  /\ tasks'[i].reloadKind = tasks[i].rowKind

C3_AnimateThenDeleteThenReload == [][C3_Step]_vars

\* a dispatch whose delete succeeded and whose reload shows the list without
\* the entry
C3_Witness ==
    \E i \in 1..Len(tasks) :
        /\ tasks[i].pc = "done" /\ tasks[i].outcome = "ok"
        /\ tasks[i].reload = "shown" /\ ~tasks[i].present

\* C4: whenever no pointer is down, no row holds gesture state or carries the
\* 'swiping' class.
C4_NoLeak ==
    (~mouseDown /\ ~touch.active) =>
        \A k \in Kinds : \A i \in 1..Len(rows[k]) :
            ~rows[k][i].swipeData.has /\ ~rows[k][i].swiping

\* C5: at most one storage delete is dispatched for a rendered row.
C5_AtMostOneDispatch ==
    \A k \in Kinds : \A i \in 1..Len(rows[k]) : rows[k][i].dispatches <= 1

\* C6: while every move of a gesture has |deltaY| > |deltaX|, no offset is
\* applied to the row, the gesture tracks no x coordinate, and preventDefault is
\* not called.
C6_VerticalIsLeftAlone ==
    \A k \in Kinds : \A i \in 1..Len(rows[k]) :
        LET row == rows[k][i]
        IN  (row.hist.moved /\ row.hist.vertical) =>
                /\ ~row.hist.offset
                /\ ~row.hist.prevented
                /\ row.swipeData.has =>
                       row.swipeData.currentX = row.swipeData.startX

\* a gesture in progress all of whose moves were vertical
C6_Witness ==
    \E k \in Kinds : \E i \in 1..Len(rows[k]) :
        /\ rows[k][i].swipeData.has
        /\ rows[k][i].hist.moved /\ rows[k][i].hist.vertical

\* C7: a pointer-up 1000 ms or more after the pointer-down is never a delete.
C7_SlowIsNeverDelete ==
    (last.ev = "end" /\ EndElapsed >= 1000) => ~last.deleted

\* down at x = 200, move to x = 90, up at 1200 ms: not a delete
C7_Witness ==
    /\ last.ev = "end" /\ ~last.deleted
    /\ last.pre.startX = 200 /\ last.pre.currentX = 90
    /\ last.pre.startTime = 0 /\ now = 1200

\* C8 as stated: a pointer-up with deltaX <= -60, |deltaX| >= 60 and less than
\* 1000 ms elapsed is a delete.
C8_AtTheMark ==
    (/\ last.ev = "end"
     /\ EndDeltaX <= -60 /\ Abs(EndDeltaX) >= 60
     /\ EndElapsed < 1000) => last.deleted

\* C8 amended: a pointer-up with deltaX < -60, |deltaX| > 60 and less than
\* 1000 ms elapsed is a delete; at exactly -60 it is not.
C8_PastTheMark ==
    last.ev = "end" =>
        /\ (EndDeltaX < -60 /\ Abs(EndDeltaX) > 60 /\ EndElapsed < 1000)
               => last.deleted
        /\ EndDeltaX = -60 => ~last.deleted

\* one pixel past the mark, released in time: a delete
C8_Witness ==
    /\ last.ev = "end" /\ last.deleted
    /\ EndDeltaX = -61 /\ EndElapsed < 1000

\* C9: a pointer-up that is not a delete leaves the row with no offset and
\* without the 'swipe-delete' class.
C9_CancelResets ==
    (last.ev = "end" /\ ~last.deleted) =>
        /\ lastRow.transform = NoTransform
        /\ ~lastRow.swipeDelete

\* down at x = 200, move to x = 150, up at 150 ms
C9_Witness ==
    /\ last.ev = "end" /\ ~last.deleted
    /\ last.pre.startX = 200 /\ last.pre.currentX = 150
    /\ last.pre.startTime = 0 /\ now = 150
    /\ lastRow.transform = NoTransform

\* C10: after a move that is at least as horizontal as vertical and leftward,
\* the row's offset is min(|deltaX|, SWIPE_THRESHOLD), within
\* 0..SWIPE_THRESHOLD, and the row carries 'swipe-delete' exactly when the
\* offset exceeds 60.
C10_OffsetAndMarker ==
    \A k \in Kinds : \A i \in 1..Len(rows[k]) :
        LET row == rows[k][i]
            offset == Min(row.swipeData.startX - row.hist.x, SWIPE_THRESHOLD)
        IN  (row.swipeData.has /\ row.hist.left) =>
                /\ row.transform = TranslateX(offset)
                /\ offset \in 0..SWIPE_THRESHOLD
                /\ row.swipeDelete <=> offset > 60
                /\ row.swipeData.currentX = row.hist.x

\* a move of 110 pixels: the offset is at the cap, the row is marked
C10_Witness ==
    \E k \in Kinds : \E i \in 1..Len(rows[k]) :
        /\ rows[k][i].swipeData.has /\ rows[k][i].hist.left
        /\ rows[k][i].hist.x = 90
        /\ rows[k][i].transform = TranslateX(SWIPE_THRESHOLD)
        /\ rows[k][i].swipeDelete

\* C11: a pointer-up on a row that has no gesture state changes nothing and
\* dispatches nothing; a dispatch is made only by a pointer-up that finds
\* gesture state and removes it, so no pointer-down is followed by more than
\* one delete dispatch.
C11_Step ==
    /\ last'.ev = "endNoState" => rows' = rows /\ tasks' = tasks
    /\ Len(tasks') > Len(tasks) =>
           /\ rows[last'.kind][last'.idx].swipeData.has
           /\ ~rows'[last'.kind][last'.idx].swipeData.has
    /\ \A k \in Kinds : \A i \in 1..Len(rows'[k]) :
           rows'[k][i].hist.dispatched <= 1

C11_PointerUpIdempotent == [][C11_Step]_vars

\* a pointer-up on a row whose gesture an earlier pointer-up ended in a delete
C11_Witness ==
    /\ last.ev = "endNoState"
    /\ lastRow.hist.ended /\ lastRow.hist.dispatched = 1

\* C12: a move or pointer-up on a row without gesture state, and any event
\* whose target is in no row, changes no row, calls no preventDefault and
\* dispatches no delete.
C12_Step ==
    last'.ev \in {"ignored", "endNoState"} =>
        /\ rows' = rows
        /\ tasks' = tasks
        /\ ~last'.prevented

C12_MalformedIgnored == [][C12_Step]_vars

\* an ignored event while a row holds the state of a gesture in progress
C12_Witness ==
    /\ last.ev = "ignored"
    /\ \E k \in Kinds : \E i \in 1..Len(rows[k]) :
           rows[k][i].swipeData.has /\ rows[k][i].hist.left

\* C13: after a pointer-down on a row, whatever state the row had, the row has
\* the one state of that pointer-down: start and current x at the pointer
\* position, start time the time of the event.
C13_DownOverwrites ==
    last.ev = "start" =>
        /\ lastRow.swipeData.has /\ lastRow.swiping
        /\ lastRow.swipeData.startX \in DownXs
        /\ lastRow.swipeData.startY \in DownYs
        /\ lastRow.swipeData.currentX = lastRow.swipeData.startX
        /\ lastRow.swipeData.startTime = now

\* a pointer-down on a row holding the state of an earlier, moved gesture
C13_Witness ==
    /\ last.ev = "start"
    /\ last.pre.has
    /\ last.pre.currentX # lastRow.swipeData.currentX
    /\ last.pre.startTime # now

\* C14: every table body carries at most one set of swipe handlers, and a body
\* that holds rendered rows carries the set bound for its own collection.
C14_OneHandlerSet ==
    \A k \in Kinds :
        /\ Len(swipeListeners[k]) <= 1
        /\ rows[k] # <<>> => swipeListeners[k] = <<k>>

\* a table rendered again after a delete was dispatched from it
C14_Witness ==
    \E i \in 1..Len(tasks) :
        /\ tasks[i].reload = "shown" /\ tasks[i].present
        /\ rows[tasks[i].rowKind] # <<>>
        /\ swipeListeners[tasks[i].rowKind] = <<tasks[i].rowKind>>


\* The Storage.add* call at position c completes in this step
addCompletes(c) ==
    /\ c \in 1..Len(ops')
    /\ ops'[c].op = "add"
    /\ ops'[c].pc = "done"
    /\ (c > Len(ops) \/ ops[c].pc # "done")

\* C15: when Firestore is unavailable or rejects the write, addFinance /
\* addMedia does not fail: it returns the new entry with its generated id and
\* a timestamp, and exactly one copy of it is appended to the local store
C15_Step ==
    \A c \in 1..Len(ops') :
        (addCompletes(c) /\ ops'[c].outcome \in {"unavailable", "failed"})
            => /\ ~ops'[c].rejected
               /\ ops'[c].result.id = ops'[c].id
               /\ validDate(ops'[c].result)
               /\ localStore' = [localStore EXCEPT ![ops'[c].kind] =
                                     Append(@, ops'[c].result)]

C15_AddFallsBack == [][C15_Step]_vars


\* The add at position c fell back to localStorage and returned its entry
fellBack(c) ==
    /\ c \in 1..Len(ops)
    /\ ops[c].op = "add" /\ ops[c].pc = "done"
    /\ ops[c].outcome \in {"unavailable", "failed"}
    /\ ~ops[c].rejected

\* The entry the add at position c created is a document of its collection
inRemote(c) ==
    /\ c \in 1..Len(ops)
    /\ \E d \in remote[ops[c].kind] : d.id = ops[c].id

\* A delete of the entry the add at position c created has been dispatched
deleteBegun(c) ==
    /\ c \in 1..Len(ops)
    /\ \E i \in 1..Len(tasks) : tasks[i].rowId = ops[c].id

\* C16: an entry added while the remote write failed is eventually a
\* document of the remote collection (unless it is deleted first), without
\* anyone calling syncLocalToFirestore
C16_SyncsWhenBack ==
    \A c \in 1..MaxOps : [](fellBack(c) => <>(inRemote(c) \/ deleteBegun(c)))


\* The add at position c returned its entry
returned(c) ==
    /\ c \in 1..Len(ops)
    /\ ops[c].op = "add" /\ ops[c].pc = "done"
    /\ ~ops[c].rejected

\* The local cache of its collection holds the entry the add at c created
inLocal(c) ==
    /\ c \in 1..Len(ops)
    /\ \E i \in 1..Len(localStore[ops[c].kind]) :
           localStore[ops[c].kind][i].id = ops[c].id

\* C17: an entry returned by addFinance / addMedia and not deleted since is in
\* the local cache (which is what a later getFinances / getMedia returns when
\* it does not return the remote list it has just cached)
C17_AlwaysLocal ==
    \A c \in 1..Len(ops) : (returned(c) /\ ~deleteBegun(c)) => inLocal(c)


\* The Storage.delete* call of dispatch i returns in this step
deleteReturns(i) ==
    /\ i \in 1..Len(tasks) /\ i \in 1..Len(tasks')
    /\ tasks[i].outcome = "none"
    /\ tasks'[i].outcome # "none"

\* The ids a local list holds
idsOf(s) == {s[k].id : k \in 1..Len(s)}

\* C18: deleteFinance / deleteMedia always report success; when they return,
\* the local store of their collection holds no entry of that id, its other
\* entries are the same in the same order, the other collection's store is
\* as it was, and deleting an id that is not stored changes nothing
C18_Step ==
    \A i \in 1..Len(tasks) :
        deleteReturns(i) =>
            LET coll == callCollection(tasks'[i].call)
                id == tasks'[i].callId
            IN  /\ tasks'[i].msg = "success"
                /\ id \notin idsOf(localStore'[coll])
                /\ localStore'[coll] =
                       SelectSeq(localStore[coll], LAMBDA e : e.id # id)
                /\ \A k \in Kinds \ {coll} : localStore'[k] = localStore[k]
                /\ id \notin idsOf(localStore[coll]) => localStore' = localStore

C18_DeleteFrame == [][C18_Step]_vars

\* Two deletes of the same id have returned, the second finding nothing to
\* delete, and another entry of the collection is still stored
C18_Witness ==
    \E i, j \in 1..Len(tasks) :
        /\ i < j
        /\ tasks[i].outcome # "none" /\ tasks[j].outcome # "none"
        /\ tasks[i].callId = tasks[j].callId
        /\ tasks[i].call = tasks[j].call
        /\ localStore[callCollection(tasks[i].call)] # <<>>


\* Two copies of an entry agree on what is fixed at creation: the instant of
\* its timestamp and its cost (which stands for the description too)
sameFixed(d, e) == d.timestamp = e.timestamp /\ d.cost = e.cost

\* A worth-it toggle of entry id of collection k to value w completes in this
\* step (it returns, or throws once the remote update is done)
toggled(k, id, w) ==
    \E c \in 1..Len(ops') :
        /\ ops'[c].op = "update" /\ ops'[c].kind = k /\ ops'[c].id = id
        /\ ops'[c].worthIt = w
        /\ ops'[c].pc = "done"
        /\ (c > Len(ops) \/ ops[c].pc # "done")

\* The local cache of collection k is replaced by the remote list in this step
refreshed(k) ==
    /\ localStore'[k] # localStore[k]
    /\ localStore'[k] = ReadDocs(OrderByDesc(remote[k]))

\* The add that created entry e of collection k resolves in this step and
\* pushes the entry as it was created
appended(k, e) ==
    \E c \in 1..Len(ops') :
        /\ addCompletes(c) /\ ops'[c].kind = k /\ ops'[c].id = e.id
        /\ e.worthIt = ops'[c].entry.worthIt

\* C19: a stored entry keeps its id, timestamp, description and cost from its
\* creation on, in the remote collection and in the local cache; its worthIt
\* changes only when a toggle of that very entry completes (the cache also
\* takes the remote value when it is refreshed, and the copy an add pushes
\* when it resolves holds the value of creation), and no other entry changes
C19_Step ==
    \A k \in Kinds :
        /\ remote'[k] # remote[k] =>
              \A d \in remote[k], e \in remote'[k] :
                  d.id = e.id => /\ sameFixed(d, e)
                                 /\ d.worthIt # e.worthIt => toggled(k, d.id, e.worthIt)
        /\ localStore'[k] # localStore[k] =>
              \A i \in 1..Len(localStore[k]), j \in 1..Len(localStore'[k]) :
                  LET d == localStore[k][i]
                      e == localStore'[k][j]
                  IN  d.id = e.id =>
                        /\ sameFixed(d, e)
                        /\ \/ \E h \in 1..Len(localStore[k]) :
                                  /\ localStore[k][h].id = e.id
                                  /\ localStore[k][h].worthIt = e.worthIt
                           \/ toggled(k, d.id, e.worthIt)
                           \/ refreshed(k)
                           \/ appended(k, e)
        /\ (remote'[k] # remote[k] \/ localStore'[k] # localStore[k]) =>
              \A d \in remote'[k], j \in 1..Len(localStore'[k]) :
                  d.id = localStore'[k][j].id => sameFixed(d, localStore'[k][j])
        /\ (ops' # ops \/ localStore'[k] # localStore[k]) =>
              \A c \in 1..Len(ops'), j \in 1..Len(localStore'[k]) :
                  (ops'[c].op = "add" /\ ops'[c].id = localStore'[k][j].id)
                      => sameFixed(ops'[c].entry, localStore'[k][j])

C20_NewestFirst ==
    \A k \in Kinds :
        \A i, j \in 1..Len(rows[k]) : i < j => rows[k][i].at >= rows[k][j].at


\* UI.displayFinances / displayMedia runs for collection k in this step: a
\* snapshot is delivered, a loadEntries gets its list, or the delete chain
\* without Firestore reloads
rendered(k) ==
    \/ snapDue[k] /\ ~snapDue'[k]
    \/ \E j \in 1..Len(loads) : loads[j].kind = k /\ loads' = DropAt(loads, j)
    \/ \E i \in 1..Len(tasks) :
          /\ i \in 1..Len(tasks')
          /\ tasks[i].pc = "timer" /\ tasks'[i].pc = "done"
          /\ collectionOf(tasks[i].type) = k

\* C21: when the table, table body or empty-state element of a collection is
\* absent, a render of that collection raises no error and changes nothing
\* of what is displayed
C21_Step ==
    \A k \in Kinds :
        (rendered(k) /\ \E a \in missing : a[1] = k)
            => /\ last'.ev # "renderThrew"
               /\ UNCHANGED <<tableShown, rows, swipeListeners>>

C21_MissingAnchorAborts == [][C21_Step]_vars


\* The table of its collection has a row for the entry the add at c created
shownRow(c) ==
    /\ c \in 1..Len(ops)
    /\ \E i \in 1..Len(rows[ops[c].kind]) : rows[ops[c].kind][i].id = ops[c].id

\* C22: once Storage.addFinance has resolved for a submitted finance form,
\* the finance table eventually has a row for the new entry, also when the
\* entry was saved to localStorage only
C22_AddIsDisplayed ==
    \A c \in 1..MaxOps :
        []((returned(c) /\ ops[c].kind = "finance") => <>shownRow(c))


\* The rows are one fresh row per entry of the list, in its order
rowsMatch(rs, list) ==
    /\ Len(rs) = Len(list)
    /\ \A i \in 1..Len(list) : rs[i] = createRow(list[i])

\* C23: after a render of a collection the rows of its table body
\* are exactly one row per entry of the list rendered, in list order, so none
\* after an empty list.  (The list rendered is the cache just written or
\* read, as loadEntries sorts it.)
C23_Step ==
    \A k \in Kinds :
        rendered(k) =>
            \E list \in SortOutcomes(localStore'[k]) : rowsMatch(rows'[k], list)

C23_RenderRedraws == [][C23_Step]_vars


\* C24: a pointer-up on a row with gesture state, less than 1000 ms after
\* its pointer-down, is classified as a delete exactly when the row carries
\* the swipe-delete marker as the handler begins
C24_Step ==
    (last'.ev = "end" /\ now - last'.pre.startTime < SWIPE_TIME_LIMIT)
        => (last'.deleted <=> rows[last'.kind][last'.idx].swipeDelete)

C24_MarkerAgrees == [][C24_Step]_vars


\* C25: a gesture none of whose moves was both horizontally dominant and
\* leftward by more than 0.6 * SWIPE_THRESHOLD is never classified as a
\* delete: scrolling, tapping and rightward swipes do not delete
C25_OnlyLeftwardDeletes ==
    (last.ev = "end" /\ last.deleted) => lastRow.hist.past

\* A row was moved, never horizontally leftward past the mark, and released
\* in time: it is not deleted
C25_Witness ==
    /\ last.ev = "end" /\ ~last.deleted
    /\ lastRow.hist.moved /\ ~lastRow.hist.past
    /\ EndElapsed < SWIPE_TIME_LIMIT


\* C26: the localStorage cache of a collection never holds two entries of
\* the same id
C26_NoDuplicateIds ==
    \A k \in Kinds :
        \A i, j \in 1..Len(localStore[k]) :
            localStore[k][i].id = localStore[k][j].id => i = j


\* C27: once deleteFinance / deleteMedia has returned for an id, the list a
\* later getFinances / getMedia or snapshot returns (which is the list the
\* cache then holds) has no entry of that id
C27_NeverReappears ==
    \A i \in 1..Len(tasks) :
        tasks[i].outcome # "none" =>
            tasks[i].callId \notin idsOf(localStore[callCollection(tasks[i].call)])


\* The toggle at position c has completed successfully
toggleDone(c) ==
    /\ ops[c].op = "update" /\ ops[c].pc = "done"
    /\ ops[c].outcome = "ok" /\ ~ops[c].rejected

\* C28: after two toggles of the same cell have both completed successfully,
\* the stored worthIt of the entry, and the cell, hold the value the cell
\* had before the first click
C28_ToggleTwiceRestores ==
    \A c1, c2 \in 1..Len(ops) :
        (/\ c1 < c2
         /\ toggleDone(c1) /\ toggleDone(c2)
         /\ ops[c1].kind = ops[c2].kind /\ ops[c1].id = ops[c2].id
         /\ ops[c1].cell = ops[c2].cell
         /\ ops[c1].attached /\ ops[c2].attached)
            => LET k == ops[c1].kind
                   before == ~ops[c1].worthIt
               IN  /\ \A d \in remote[k] : d.id = ops[c1].id => d.worthIt = before
                   /\ \A j \in 1..Len(localStore[k]) :
                          localStore[k][j].id = ops[c1].id
                              => localStore[k][j].worthIt = before
                   /\ rows[k][ops[c1].cell].worth = before


\* The remote update of the toggle at position c fails in this step and the
\* entry is not in the local store
updateFails(c) ==
    /\ c \in 1..Len(ops) /\ c \in 1..Len(ops')
    /\ ops[c].op = "update" /\ ops[c].pc = "remote"
    /\ ops'[c].pc = "done" /\ ops'[c].outcome = "failed"
    /\ findIndex(localStore[ops[c].kind], ops[c].id) = 0

C29_Step ==
    \A c \in 1..Len(ops) :
        updateFails(c) =>
            /\ localStore' = localStore
            /\ remote' = remote
            /\ rows' = rows
            /\ ops'[c].rejected
            /\ ~loading'

\* C29: when the remote update of a toggle fails and the entry is not in the
\* local store, the stores and the cell are left as they were, the error is
\* reported and the loading indicator is hidden
C29_FailedToggleChangesNothing == [][C29_Step]_vars

\* A toggle has failed on an entry missing from the local store while its cell
\* was still displayed
C29_Witness ==
    \E c \in 1..Len(ops) :
        /\ ops[c].op = "update" /\ ops[c].pc = "done"
        /\ ops[c].outcome = "failed" /\ ops[c].rejected
        /\ ops[c].attached /\ ops[c].cell \in 1..Len(rows[ops[c].kind])
        /\ rows[ops[c].kind][ops[c].cell].id = ops[c].id
        /\ ~loading


\* The turns of the loop over collection k, in order, each position once
eachOnce(call, k) ==
    /\ Len(call.attempts[k]) = Len(call.read[k])
    /\ \A i \in 1..Len(call.attempts[k]) : call.attempts[k][i].at = i

C30_Step ==
    /\ ops' # ops => localStore' = localStore
    /\ (ops = <<>> /\ ops' # <<>>) =>
           IF db = "set"
           THEN ops'[1].pc # "thrown" /\ ops'[1].read = localStore
           ELSE ops'[1].pc = "thrown" /\ remote' = remote
    /\ (ops' # <<>> /\ ops'[1].pc = "thrown") =>
           \A k \in Kinds : ops'[1].attempts[k] = <<>>
    /\ (ops' # <<>> /\ ops'[1].pc = "returned") =>
           \A k \in Kinds :
               /\ ops'[1].results[k].synced + ops'[1].results[k].errors
                      = Len(ops'[1].read[k])
               /\ eachOnce(ops'[1], k)

\* C30: syncLocalToFirestore throws without a write when Firebase is not
\* available; otherwise it attempts each entry it read from the local store
\* once, in order, whatever the outcome of the writes before, returns per
\* collection synced + errors = the number of entries read, and no step of
\* it changes the local store
C30_SyncAttemptsEachOnce == [][C30_Step]_vars

\* The first finance write failed, the second succeeded, and the call returned
C30_Witness ==
    /\ ops # <<>> /\ ops[1].op = "sync" /\ ops[1].pc = "returned"
    /\ Len(ops[1].attempts.finance) >= 2
    /\ ~ops[1].attempts.finance[1].ok
    /\ ops[1].attempts.finance[2].ok
    /\ ops[1].results.finance = [synced |-> Len(ops[1].read.finance) - 1, errors |-> 1]

====
